---- MODULE Spec2Model ----
(***************************************************************************)
(* zombie-cleaner: the controller (internal/cleaner/cleaner.go) and the     *)
(* detector (internal/detector/detector.go) as state machines.              *)
(*                                                                          *)
(*   Spec        the control loop (Start / runCheck), the confirmation      *)
(*               state machine (processContainerZombies), the idle reaper   *)
(*               (cleanupOldStates) and the cleanup goroutines              *)
(*               (cleanupContainer), interleaved freely.                    *)
(*   SpecStop    the same with the shutdown of main: the root context is     *)
(*               cancelled and Cleaner.Stop is called.                      *)
(*   SpecDetect  detection passes (DetectZombies, getContainerPIDTrees,     *)
(*               buildPIDTree with its cache) over a process table that     *)
(*               changes between passes.                                    *)
(*   SpecRemove  RemoveContainer of the two runtime adapters against a       *)
(*               daemon whose containers come and go.                       *)
(*   SpecWalk    the walk closure of buildPIDTree, one step at a time, on   *)
(*               arbitrary parent-to-children indexes.                      *)
(*   SpecFan     the worker goroutines of getContainerPIDTrees and their   *)
(*               semaphore.                                                 *)
(*   SpecCache   the cache of buildPIDTree over many builds.                *)
(*   SpecLedger  the ledger of inspect timeouts over the passes, with the   *)
(*               clock running.                                             *)
(*   SpecLock    Cleaner.stateMutex, lock by lock, held by the loop, the     *)
(*               cleanup goroutines and Stop.                               *)
(*   SpecFair    Spec with the cleanup goroutines scheduled fairly: a       *)
(*               goroutine that can take a step eventually takes one.       *)
(***************************************************************************)
EXTENDS Integers, Sequences, FiniteSets, Bags, TLC

(***************************************************************************)
(* Bounds of the model.                                                     *)
(***************************************************************************)
\* The clock runs from 0 to MaxTime; one unit is 1/CheckInterval of the
\* configured check interval.
MaxTime == 4
\* cfg.Cleaner.CheckInterval in clock units (validate: > 0).
CheckInterval == 1
\* cfg.Cleaner.ConfirmCount is drawn from 1..MaxConfirmCount (validate: > 0).
MaxConfirmCount == 2
\* The control loop is followed until MaxCleanups cleanup goroutines have been
\* started; the goroutines that exist then still run to their end.
MaxCleanups == 2
\* SpecDetect: the process table holds pids 1..MaxPid.
MaxPid == 3
\* SpecWalk: a parent-to-children index holds at most MaxEdges edges.
MaxEdges == 3
\* SpecLedger: time.Hour (detector.go:310), in clock units.
Hour == 2
\* SpecFan: ListContainers returns at most MaxListed containers.
MaxListed == 22
\* kernel.pid_max, the bound of the tree walk (detector.go:268)
PidMax == 4194304
\* cap(semaphore) of getContainerPIDTrees (detector.go:207)
SemaphoreSize == 20

(***************************************************************************)
(* The containers of the node and the zombies a detection pass may report. *)
(***************************************************************************)
NoContainer == "none"

Containers == {"c1", "c2"}

\* ContainerMeta.PodName of each container (runtime.go:9-17).
PodName(c) == IF c = "c1" THEN "app-1" ELSE "kube-system-foo"

\* The whitelist patterns a configuration may carry, compiled by New.
WhitelistChoices ==
    { <<"^kube-system-.*">>, <<"^nomatch$", "^kube-system-.*">> }

\* regexp.Regexp.MatchString on the pod names of the model.
MatchString(regex, podName) ==
    \/ regex = "^kube-system-.*" /\ podName = "kube-system-foo"
    \/ regex = "^app-.*" /\ podName = "app-1"

\* detector.ZombieInfo values a pass may return (Container is the ID of the
\* ContainerMeta the report points to, IsInContainer is Container # none).
ZombieInfos ==
    { [PID |-> 202, PPID |-> 201, Container |-> "c1"],
      [PID |-> 203, PPID |-> 1,   Container |-> "c1"],
      [PID |-> 302, PPID |-> 301, Container |-> "c2"],
      [PID |-> 101, PPID |-> 100, Container |-> NoContainer] }

IsInContainer(zombie) == zombie.Container # NoContainer

VARIABLES
    \* ---- configuration (immutable after New) ----
    confirmCount,        \* cfg.Cleaner.ConfirmCount
    dryRun,              \* cfg.Cleaner.DryRun
    whitelistRegexes,    \* Cleaner.whitelistRegexes (sequence of patterns)
    \* ---- time ----
    now,                 \* time.Now(), in clock units
    tickerC,             \* the ticker channel of Start holds a tick (buffer 1)
    \* ---- control loop ----
    loopPc,              \* where the goroutine running Start is
    containerZombies,    \* runCheck's local map containerID -> zombies
    \* ---- Cleaner state ----
    containerStates,     \* Cleaner.containerStates: containerID -> ContainerState
    tasks,               \* the cleanupContainer goroutines that exist (a bag)
    started,             \* how many go statements (line 262) have run so far
    \* ---- effects ----
    removeCalls,         \* containerRuntime.RemoveContainer calls per container
    shimKillCalls,       \* killContainerShim calls per container
    containersCleaned,   \* metrics.ContainersCleaned per container
    cleanupFailures,     \* metrics.CleanupFailures per reason
    containerOperationTimeouts, \* metrics.ContainerOperationTimeouts{remove}
    shimsKilled,         \* shim processes that kill -9 ended, per container
    removeErr,           \* per container, what the last removeContainer call
                         \* returned (err of cleaner.go:289)
    \* ---- shutdown ----
    ctxDone,             \* the root context of main is cancelled
    stopPc,              \* where the call of Stop is
    \* ---- history ----
    streak,              \* per container: the successful passes in a row, up
                         \* to the last one, that attributed zombies to it
                         \* (counted up to confirmCount - 1)
    sightings,           \* per container: the ticks that sighted it, none
                         \* of its zombies an orphan, since its entry was
                         \* created (counted up to confirmCount); 0 without
                         \* an entry, -1 once a sighting had an orphan
    \* ---- Detector (SpecDetect) ----
    procs,               \* /proc: pid -> [PPID, State]
    pidTreeCache,        \* Detector.pidTreeCache.m: root pid -> tree
    detPc,               \* "idle", or "returned" after a pass
    parentMap,           \* DetectZombies' parentMap of the last pass
    containers,          \* DetectZombies' containers: ID -> [PID, PIDSet]
    zombieInfos,         \* the reports the last pass returned
    detectErr,           \* the last pass returned an error
    timeoutContainers,   \* Detector.timeoutContainers: ID -> time recorded
    lastCleanup,         \* time.Now() of the last CleanupOldTimeouts call
                         \* (line 310), -1 before the first
    \* ---- the walk of buildPIDTree (SpecWalk) ----
    wEdges,              \* the (ppid, pid) pairs the index is built from
    wRoot,               \* the root the walk was started on
    wPc,                 \* "input", "call", "loop" or "done"
    wArg,                \* the argument of the walk call being entered
    wStack,              \* the active walk calls: [pid, i] (next child)
    wTree,               \* tree, which is also visited (lines 265-266)
    wInserts,            \* how often tree[pid] = true ran, per pid
    wSteps,              \* how many steps the walk has taken
    \* ---- the runtime adapters (SpecRemove) ----
    containerRuntime,    \* cfg.Cleaner.ContainerRuntime: "docker", "containerd"
    backend,             \* the containers the runtime daemon has: ID -> state
    removeResult,        \* per container, the last RemoveContainer call:
                         \* [gone, err]
    \* ---- the fan-out of getContainerPIDTrees (SpecFan) ----
    maxConcurrentContainers, \* cfg.Cleaner.MaxConcurrentContainers
    fanPc,               \* "idle", "loop", "wait" or "returned"
    fanContainers,       \* len(containers), what ListContainers returned
    fanSpawned,          \* the iterations of the loop that have run
    semaphore,           \* len(semaphore): the workers started and not done
    fanResult,           \* len(result)
    \* ---- Cleaner.stateMutex, lock by lock (SpecLock) ----
    stateMutex,          \* the goroutines that hold stateMutex
    lkLoop,              \* where the goroutine running Start is
    lkTask,              \* where each cleanupContainer goroutine is
    lkStop               \* where Stop and its goroutine are

cleanerVars ==
    << confirmCount, dryRun, whitelistRegexes, now, tickerC, loopPc,
       containerZombies, containerStates, tasks, started, removeCalls,
       shimKillCalls, containersCleaned, cleanupFailures, containerOperationTimeouts,
       shimsKilled, removeErr, ctxDone, stopPc, streak, sightings >>

detectVars ==
    << procs, pidTreeCache, detPc, parentMap, containers, zombieInfos, detectErr,
       timeoutContainers, lastCleanup >>

walkVars == << wEdges, wRoot, wPc, wArg, wStack, wTree, wInserts, wSteps >>

runtimeVars == << containerRuntime, backend, removeResult >>

fanVars ==
    << maxConcurrentContainers, fanPc, fanContainers, fanSpawned, semaphore,
       fanResult >>

lockVars == << stateMutex, lkLoop, lkTask, lkStop >>

auxVars == << fanVars, lockVars >>

vars == << cleanerVars, detectVars, walkVars, runtimeVars, auxVars >>

\* What no step of the controller changes: the configuration, and the
\* variables of the other specifications.
configVars ==
    << confirmCount, dryRun, whitelistRegexes, detectVars, walkVars,
       runtimeVars, auxVars >>

effectVars ==
    << started, removeCalls, shimKillCalls, containersCleaned, cleanupFailures,
       containerOperationTimeouts, shimsKilled, removeErr >>

\* The shutdown: main's root context and the call of Stop.
stopVars == << ctxDone, stopPc >>

Reasons == {"detection_failed", "cleanup_failed"}

(***************************************************************************)
(* Helpers on finite maps.                                                  *)
(***************************************************************************)
EmptyMap == [c \in {} |-> 0]

Tracked(c) == c \in DOMAIN containerStates

\* delete(m, keys)
DeleteKeys(m, keys) == [c \in (DOMAIN m) \ keys |-> m[c]]

\* The cleanupContainer goroutines started for container c and not finished.
TasksOf(c) == {t \in BagToSet(tasks) : t.containerID = c}

\* How many of them there are.
TaskCount(c) ==
    BagCardinality([t \in TasksOf(c) |-> tasks[t]])

\* A goroutine keeps the *ContainerState it was started with.  An entry that
\* leaves the map never returns to it (a later sighting allocates a new
\* ContainerState), so the pointer of a task is the entry of the map (live)
\* until some delete removes the entry.
Orphan(ts, keys) ==
    LET dom == {IF t.containerID \in keys THEN [t EXCEPT !.live = FALSE] ELSE t :
                   t \in BagToSet(ts)}
    IN  [r \in dom |->
            IF r.containerID \in keys
            THEN CopiesIn(r, ts) + CopiesIn([r EXCEPT !.live = TRUE], ts)
            ELSE ts[r]]

(***************************************************************************)
(* Cleaner.New: the state after construction.                               *)
(***************************************************************************)
CleanerNew ==
    /\ now = 0
    /\ tickerC = FALSE
    /\ loopPc = "start"
    /\ containerZombies = EmptyMap
    /\ containerStates = EmptyMap
    /\ tasks = EmptyBag
    /\ started = 0
    /\ removeCalls = [c \in Containers |-> 0]
    /\ shimKillCalls = [c \in Containers |-> 0]
    /\ containersCleaned = [c \in Containers |-> 0]
    /\ cleanupFailures = [r \in Reasons |-> 0]
    /\ containerOperationTimeouts = 0
    /\ shimsKilled = [c \in Containers |-> 0]
    /\ removeErr = [c \in Containers |-> "none"]
    /\ ctxDone = FALSE
    /\ stopPc = "running"
    /\ streak = [c \in Containers |-> 0]
    /\ sightings = [c \in Containers |-> 0]

\* detector.New: empty cache; /proc holds init alone.
InitProc == [PPID |-> 0, State |-> "S"]

DetectorNew ==
    /\ procs = (1 :> InitProc)
    /\ pidTreeCache = EmptyMap
    /\ detPc = "idle"
    /\ parentMap = EmptyMap
    /\ containers = EmptyMap
    /\ zombieInfos = {}
    /\ detectErr = FALSE
    /\ timeoutContainers = EmptyMap
    /\ lastCleanup = -1

\* No walk: the index is still to be given.
WalkNew ==
    /\ wEdges = << >>
    /\ wRoot = 0
    /\ wPc = "input"
    /\ wArg = 0
    /\ wStack = << >>
    /\ wTree = {}
    /\ wInserts = EmptyMap
    /\ wSteps = 0

\* No RemoveContainer call was made for the container so far.
NoCall == [gone |-> FALSE, err |-> "none"]

\* NewDockerRuntime / NewContainerdRuntime: a client of the daemon, which
\* has no container of the model yet; no RemoveContainer call so far.
RuntimeNew ==
    /\ containerRuntime = "containerd"
    /\ backend = EmptyMap
    /\ removeResult = [c \in Containers |-> NoCall]

\* config.Load: max_concurrent_containers is 10 unless the file sets it
\* (config.go:62); no pass has fanned out.
FanNew ==
    /\ maxConcurrentContainers = 10
    /\ fanPc = "idle"
    /\ fanContainers = 0
    /\ fanSpawned = 0
    /\ semaphore = 0
    /\ fanResult = 0

\* The cleanupContainer goroutines whose locking is followed.
LockTasks == {"t1", "t2"}

\* Nobody holds stateMutex; Start has not been called, no goroutine exists.
LockNew ==
    /\ stateMutex = {}
    /\ lkLoop = "select"
    /\ lkTask = [t \in LockTasks |-> "none"]
    /\ lkStop = "running"

AuxNew == FanNew /\ LockNew

InitCleaner ==
    /\ confirmCount \in 1..MaxConfirmCount
    /\ dryRun \in BOOLEAN
    /\ whitelistRegexes \in WhitelistChoices
    /\ CleanerNew
    /\ DetectorNew
    /\ WalkNew
    /\ RuntimeNew
    /\ AuxNew

(***************************************************************************)
(* Time passes; the ticker of Start fires every CheckInterval.              *)
(***************************************************************************)
AdvanceClock ==
    /\ now < MaxTime
    /\ now' = now + 1
    /\ tickerC' = (tickerC \/ (now + 1) % CheckInterval = 0)
    /\ UNCHANGED << configVars, stopVars, streak, sightings, loopPc, containerZombies, containerStates,
                    tasks, effectVars >>

(***************************************************************************)
(* Cleaner.Start and Cleaner.runCheck.                                      *)
(***************************************************************************)
\* Start calls runCheck at once, and then again for every tick received.
StartRunCheck ==
    /\ \/ loopPc = "start" /\ UNCHANGED tickerC
       \/ loopPc = "select" /\ tickerC /\ tickerC' = FALSE
    /\ started < MaxCleanups
    /\ loopPc' = "detect"
    /\ UNCHANGED << configVars, stopVars, streak, sightings, now, containerZombies, containerStates, tasks,
                    effectVars >>

\* runCheck lines 168-174: group the container zombies by container ID.
GroupByContainer(zombies) ==
    [c \in {z.Container : z \in {y \in zombies : IsInContainer(y)}} |->
        {z \in zombies : z.Container = c}]

\* DetectZombies returned an error.
DetectFailedCountsTwice ==
    /\ loopPc = "detect"
    /\ cleanupFailures' =
          [cleanupFailures EXCEPT !["detection_failed"] = @ + 2]
    /\ loopPc' = "select"
    /\ UNCHANGED << configVars, stopVars, streak, sightings, now, tickerC, containerZombies,
                    containerStates, tasks, started, removeCalls, shimKillCalls,
                    containersCleaned, containerOperationTimeouts,
                    shimsKilled, removeErr >>

DetectFailed ==
    /\ loopPc = "detect"
    /\ cleanupFailures' =
          [cleanupFailures EXCEPT !["detection_failed"] = @ + 1]
    /\ loopPc' = "select"
    /\ UNCHANGED << configVars, stopVars, streak, sightings, now, tickerC, containerZombies, containerStates,
                    tasks, started, removeCalls, shimKillCalls,
                    containersCleaned, containerOperationTimeouts,
                    shimsKilled, removeErr >>

\* DetectZombies returned the reports `zombies` (none: straight to the reaper).
DetectReturned ==
    /\ loopPc = "detect"
    /\ \E zombies \in SUBSET ZombieInfos :
          IF zombies = {}
          THEN /\ loopPc' = "reap"
               /\ containerZombies' = EmptyMap
          ELSE /\ loopPc' = "process"
               /\ containerZombies' = GroupByContainer(zombies)
    /\ UNCHANGED << configVars, stopVars, streak, sightings, now, tickerC, containerStates, tasks,
                    effectVars >>

(***************************************************************************)
(* Cleaner.processContainerZombies, under stateMutex.                       *)
(***************************************************************************)
\* Cleaner.isWhitelisted
FirstRegexOnly(podName) ==
    /\ Len(whitelistRegexes) > 0
    /\ MatchString(whitelistRegexes[1], podName)

\* No pod name is on the whitelist.
NeverWhitelisted(podName) == FALSE

isWhitelisted(podName) ==
    \E i \in 1..Len(whitelistRegexes) : MatchString(whitelistRegexes[i], podName)

\* line 230: state.ZombieCount >= c.config.Cleaner.ConfirmCount
ReachedThresholdOffByOne(count) == count + 1 >= confirmCount

ReachedThreshold(count) == count >= confirmCount

\* lines 232-243: some zombie of the container has PPID 1
AllOrphanZombies(zombies) == \A z \in zombies : z.PPID = 1

hasOrphanZombies(zombies) == \E z \in zombies : z.PPID = 1

\* lines 202-210: the entry of the map, created when there is none
LookupOrCreate(c) ==
    IF Tracked(c)
    THEN containerStates[c]
    ELSE [ZombieCount |-> 0, LastDetected |-> 0, InProgress |-> FALSE]

\* The counter grows by the number of zombies sighted.
CountedPerZombie(c) ==
    [LookupOrCreate(c) EXCEPT !.LastDetected = now,
                              !.ZombieCount = @ + Cardinality(containerZombies[c])]

\* lines 218-219
Counted(c) ==
    [LookupOrCreate(c) EXCEPT !.LastDetected = now, !.ZombieCount = @ + 1]

\* The containers the loop body does not skip at line 193-199.
Considered == {c \in DOMAIN containerZombies : ~isWhitelisted(PodName(c))}

\* No entry is skipped for being in progress.
UpdatedInProgressToo == Considered

\* The containers the loop body updates (not skipped at line 213-216).
Updated == {c \in Considered : ~LookupOrCreate(c).InProgress}

\* The goroutine starts one sighting after the threshold.
DispatchedOneTickLate ==
    {c \in Updated : /\ Counted(c).ZombieCount > confirmCount
                     /\ ~hasOrphanZombies(containerZombies[c])}

\* line 262: go c.cleanupContainer(...)
Dispatched ==
    {c \in Updated : /\ ReachedThreshold(Counted(c).ZombieCount)
                     /\ ~hasOrphanZombies(containerZombies[c])}

\* The entry of container c when the loop body is done with it.
EntryAfter(c) ==
    IF c \notin Updated
    THEN LookupOrCreate(c)
    ELSE IF /\ ReachedThreshold(Counted(c).ZombieCount)
            /\ hasOrphanZombies(containerZombies[c])
         THEN [Counted(c) EXCEPT !.ZombieCount = 0]
         ELSE Counted(c)

\* The goroutine of line 262: it holds the entry of the map, and has not
\* run yet.
NewTask(c) == [containerID |-> c, live |-> TRUE, pc |-> "spawned"]

\* The tick has sighted the containers it considered: one more sighting
\* for each, unless one of its zombies is an orphan.
SightingsAfter ==
    [c \in Containers |->
        IF c \notin Considered
        THEN sightings[c]
        ELSE IF sightings[c] = -1 \/ hasOrphanZombies(containerZombies[c])
             THEN -1
             ELSE IF sightings[c] < confirmCount
                  THEN sightings[c] + 1
                  ELSE sightings[c]]

\* The entries of keys have left the map.
SightingsWithout(keys) ==
    [c \in Containers |-> IF c \in keys THEN 0 ELSE sightings[c]]

processContainerZombies ==
    /\ loopPc = "process"
    /\ containerStates' =
          [c \in (DOMAIN containerStates) \cup Considered |->
              IF c \in Considered THEN EntryAfter(c) ELSE containerStates[c]]
    /\ tasks' = tasks (+) SetToBag({NewTask(c) : c \in Dispatched})
    /\ started' = started + Cardinality(Dispatched)
    /\ sightings' = SightingsAfter
    /\ loopPc' = "reap"
    /\ UNCHANGED << configVars, stopVars, streak, now, tickerC, containerZombies, removeCalls,
                    shimKillCalls, containersCleaned, cleanupFailures,
                    containerOperationTimeouts, shimsKilled, removeErr >>

(***************************************************************************)
(* Cleaner.cleanupOldStates, under stateMutex.                              *)
(***************************************************************************)
\* line 389: c.config.Cleaner.CheckInterval * 3
cleanupThreshold == CheckInterval * 3

\* lines 391-392: the entries the reaper deletes
ExpiredOneUnitLater ==
    {c \in DOMAIN containerStates :
        /\ ~containerStates[c].InProgress
        /\ now - containerStates[c].LastDetected > cleanupThreshold + 1}

\* The entries in progress go as well.
ExpiredInProgressToo ==
    {c \in DOMAIN containerStates :
        now - containerStates[c].LastDetected > cleanupThreshold}

Expired ==
    {c \in DOMAIN containerStates :
        /\ ~containerStates[c].InProgress
        /\ now - containerStates[c].LastDetected > cleanupThreshold}

\* The successful pass of this tick ends: the containers it attributed
\* zombies to lengthen their streak, the others start anew.
StreakAfter ==
    [c \in Containers |->
        IF c \in DOMAIN containerZombies
        THEN (IF streak[c] < confirmCount - 1 THEN streak[c] + 1 ELSE streak[c])
        ELSE 0]

cleanupOldStates ==
    /\ loopPc = "reap"
    /\ containerStates' = DeleteKeys(containerStates, Expired)
    /\ tasks' = Orphan(tasks, Expired)
    /\ containerZombies' = EmptyMap
    /\ streak' = StreakAfter
    /\ sightings' = SightingsWithout(Expired)
    /\ loopPc' = "select"
    /\ UNCHANGED << configVars, stopVars, now, tickerC, effectVars >>

(***************************************************************************)
(* Cleaner.cleanupContainer, one goroutine per dispatch.                    *)
(***************************************************************************)
Step(t, pc) == (tasks (-) SetToBag({t})) (+) SetToBag({[t EXCEPT !.pc = pc]})

\* lines 281-289: the dry-run return, or the call of removeContainer
AlwaysRemove == "removing"

\* The goroutine passes the context it was started with (lines 262, 289): a
\* call made after cancel() is a call with a cancelled context
\* ("cancelled").
AfterDryRunCheck ==
    IF dryRun THEN "defer" ELSE IF ctxDone THEN "cancelled" ELSE "removing"

\* lines 269-289: state.InProgress = true under stateMutex, on the
\* ContainerState the goroutine was given; then, the lock released, the
\* dry-run return or the call of removeContainer.
cleanupContainerBegin(t) ==
    /\ t.pc = "spawned"
    /\ containerStates' =
          IF t.live
          THEN [containerStates EXCEPT ![t.containerID].InProgress = TRUE]
          ELSE containerStates
    /\ tasks' = Step(t, AfterDryRunCheck)
    /\ removeCalls' =
          IF AfterDryRunCheck # "defer"
          THEN [removeCalls EXCEPT ![t.containerID] = @ + 1]
          ELSE removeCalls
    /\ UNCHANGED << configVars, stopVars, streak, sightings, now, tickerC, loopPc,
                    containerZombies,
                    started, shimKillCalls, containersCleaned, cleanupFailures,
                    containerOperationTimeouts, shimsKilled, removeErr >>

RemoveOutcomes == {"ok", "timeout", "error"}

\* lines 306-311 and the adapters (docker.go 111-138, containerd.go
\* 123-162): timeoutCtx is derived from the context of the goroutine.  A
\* call begun with a cancelled context fails with context.Canceled; a call
\* in flight when the context is cancelled may have been answered already,
\* may have run into its deadline, or fails with context.Canceled.
removeContainerOutcomes(t) ==
    IF t.pc = "cancelled"
    THEN {"canceled"}
    ELSE IF ctxDone
         THEN RemoveOutcomes \cup {"canceled"}
         ELSE RemoveOutcomes

\* The shim-kill is skipped when the remove failed on the cancellation.
FailedAndNotCancelled(outcome) == outcome \notin {"ok", "canceled"}

\* line 290: err != nil
RemoveFailed(outcome) == outcome # "ok"

\* The metric counted for every failed remove.
AnyRemoveFailure(outcome) == outcome # "ok"

\* timeoutCtx.Err() == context.DeadlineExceeded after a failed remove
\* (line 314)
DeadlineExceeded(outcome) == outcome = "timeout"

\* Cleaner.removeContainer returns (lines 304-324), and cleanupContainer
\* goes on: line 300 on success, line 293 on failure.
removeContainerReturn(t) ==
    /\ t.pc \in {"removing", "cancelled"}
    /\ \E outcome \in removeContainerOutcomes(t) :
          /\ containerOperationTimeouts' =
                IF DeadlineExceeded(outcome)
                THEN containerOperationTimeouts + 1
                ELSE containerOperationTimeouts
          /\ removeErr' =
                [removeErr EXCEPT
                    ![t.containerID] = IF outcome = "ok" THEN "nil" ELSE outcome]
          /\ IF ~RemoveFailed(outcome)
             THEN /\ containersCleaned' =
                        [containersCleaned EXCEPT ![t.containerID] = @ + 1]
                  /\ tasks' = Step(t, "defer")
                  /\ UNCHANGED shimKillCalls
             ELSE /\ shimKillCalls' =
                        [shimKillCalls EXCEPT ![t.containerID] = @ + 1]
                  /\ tasks' = Step(t, "shim")
                  /\ UNCHANGED containersCleaned
    /\ UNCHANGED << configVars, stopVars, streak, sightings, now, tickerC, loopPc,
                    containerZombies,
                    containerStates, started, removeCalls, cleanupFailures,
                    shimsKilled >>

\* What pgrep and kill -9 did: no shim matched, shims matched and every kill
\* failed, shims matched and at least one was killed.
ShimOutcomes == {"nomatch", "killfailed", "killed"}

\* Cleaner.killContainerShim: an error only when no pid matched (line 350).
killContainerShimErr(outcome) == outcome = "nomatch"

\* killContainerShim returns (lines 326-365), and cleanupContainer goes on:
\* lines 294-296 on an error, line 300 otherwise.
\* and the goroutine is then before its deferred function, having returned
\* at line 296 ("failed") or run to line 301 ("defer").
killContainerShimReturn(t) ==
    /\ t.pc = "shim"
    /\ \E outcome \in ShimOutcomes :
          /\ shimsKilled' =
                IF outcome = "killed"
                THEN [shimsKilled EXCEPT ![t.containerID] = @ + 1]
                ELSE shimsKilled
          /\ IF killContainerShimErr(outcome)
             THEN /\ cleanupFailures' =
                        [cleanupFailures EXCEPT !["cleanup_failed"] = @ + 1]
                  /\ tasks' = Step(t, "failed")
                  /\ UNCHANGED containersCleaned
             ELSE /\ containersCleaned' =
                        [containersCleaned EXCEPT ![t.containerID] = @ + 1]
                  /\ tasks' = Step(t, "defer")
                  /\ UNCHANGED cleanupFailures
    /\ UNCHANGED << configVars, stopVars, streak, sightings, now, tickerC, loopPc,
                    containerZombies, containerStates, started, removeCalls,
                    shimKillCalls, containerOperationTimeouts, removeErr >>

\* The delete runs only when the cleanup has succeeded.
DeferOnSuccessOnly(t) ==
    /\ t.pc = "defer"
    /\ containerStates' = DeleteKeys(containerStates, {t.containerID})
    /\ tasks' = Orphan(tasks (-) SetToBag({t}), {t.containerID})
    /\ sightings' = SightingsWithout({t.containerID})
    /\ UNCHANGED << configVars, stopVars, streak, now, tickerC, loopPc,
                    containerZombies,
                    effectVars >>

\* lines 273-277: the deferred delete(c.containerStates, containerID), on
\* every return of cleanupContainer
cleanupContainerDefer(t) ==
    /\ t.pc \in {"defer", "failed"}
    /\ containerStates' = DeleteKeys(containerStates, {t.containerID})
    /\ tasks' = Orphan(tasks (-) SetToBag({t}), {t.containerID})
    /\ sightings' = SightingsWithout({t.containerID})
    /\ UNCHANGED << configVars, stopVars, streak, now, tickerC, loopPc,
                    containerZombies,
                    effectVars >>

cleanupContainer ==
    \E t \in BagToSet(tasks) :
        \/ cleanupContainerBegin(t)
        \/ removeContainerReturn(t)
        \/ killContainerShimReturn(t)
        \/ cleanupContainerDefer(t)

Next ==
    \/ AdvanceClock
    \/ StartRunCheck
    \/ DetectFailed
    \/ DetectReturned
    \/ processContainerZombies
    \/ cleanupOldStates
    \/ cleanupContainer

Spec == InitCleaner /\ [][Next]_vars

\* The same, with the Go scheduler running every cleanupContainer goroutine
\* that can take a step, and the calls of the runtime and of pgrep and kill
\* returning.
SpecFair == Spec /\ WF_vars(cleanupContainer)

(***************************************************************************)
(* Shutdown: main cancels the root context and calls Cleaner.Stop.          *)
(***************************************************************************)
\* What the shutdown leaves alone.
stopFrame ==
    << configVars, streak, sightings, now, tickerC, containerZombies,
       containerStates, tasks, effectVars >>

\* main.go:64: cancel(), after the signal
Cancel ==
    /\ ~ctxDone
    /\ ctxDone' = TRUE
    /\ UNCHANGED << stopFrame, stopPc, loopPc >>

\* main.go:65 and Stop lines 118-127: close(c.stopChan); the goroutine that
\* takes stateMutex.RLock is started, and Stop waits in its select.
StopBegin ==
    /\ ctxDone
    /\ stopPc = "running"
    /\ stopPc' = "waiting"
    /\ UNCHANGED << stopFrame, ctxDone, loopPc >>

\* Stop lines 129-148, the case <-done: the goroutine got the read lock,
\* which no cleanup task holds across its runtime calls (lines 269-271 and
\* 274-276 release it at once), and Stop closes the runtime and the detector.
StopDone ==
    /\ stopPc = "waiting"
    /\ stopPc' = "closed"
    /\ UNCHANGED << stopFrame, ctxDone, loopPc >>

\* Stop lines 129-148, the case <-ctx.Done(): the deadline of the caller
\* expired first; the runtime and the detector are closed all the same.
StopTimeout ==
    /\ stopPc = "waiting"
    /\ stopPc' = "closedLate"
    /\ UNCHANGED << stopFrame, ctxDone, loopPc >>

\* Start lines 105-110: the select of the loop finds the context cancelled
\* or stopChan closed, and Start returns.
StartReturn ==
    /\ loopPc = "select"
    /\ ctxDone \/ stopPc # "running"
    /\ loopPc' = "returned"
    /\ UNCHANGED << stopFrame, stopVars >>

\* DetectZombies finds the context cancelled (detector.go:110-111, 152-153,
\* 220-221) and returns ctx.Err(): to runCheck an error like any other.
DetectCancelled ==
    /\ ctxDone
    /\ DetectFailed

NextStop ==
    \/ Cancel
    \/ StopBegin
    \/ StopDone
    \/ StopTimeout
    \/ StartReturn
    \/ DetectCancelled
    \/ Next

\* One configuration: threshold 1, no dry run.
InitStop ==
    /\ confirmCount = 1
    /\ dryRun = FALSE
    /\ whitelistRegexes = <<"^kube-system-.*">>
    /\ CleanerNew
    /\ DetectorNew
    /\ WalkNew
    /\ RuntimeNew
    /\ AuxNew

SpecStop == InitStop /\ [][NextStop]_vars

(***************************************************************************)
(* The detector: Detector.DetectZombies and what it calls.                  *)
(***************************************************************************)
\* ContainerMeta.PID of each container, as ListContainers returns it (> 0).
RootPid(c) == IF c = "c1" THEN 2 ELSE 3

Min(S) == CHOOSE m \in S : \A x \in S : m <= x

Max(S) == CHOOSE m \in S : \A x \in S : m >= x

\* The pids of S in the order AllProcs lists them.
RECURSIVE SortedSeq(_)
SortedSeq(S) ==
    IF S = {} THEN << >> ELSE <<Min(S)>> \o SortedSeq(S \ {Min(S)})

\* lines 105-123: parentMap[stat.PPID] = append(parentMap[stat.PPID], stat.PID)
\* (a process whose Stat fails is skipped, as one that has exited).
BuildParentMap(table) ==
    [ppid \in {table[p].PPID : p \in DOMAIN table} |->
        SortedSeq({p \in DOMAIN table : table[p].PPID = ppid})]

\* lines 120-122: the processes in state Z
CollectZombies(table) == {p \in DOMAIN table : table[p].State = "Z"}

\* parentMap[pid], the nil slice when the key is missing
Children(pm, pid) == IF pid \in DOMAIN pm THEN pm[pid] ELSE << >>

\* lines 260-278: the walk closure of buildPIDTree; visited and tree hold the
\* same pids, so the one set stands for both.
RECURSIVE walk(_, _, _), walkChildren(_, _, _, _)
\* A walk that inserts no pid: tree[pid] = true of line 266 is left out.
WalkInsertsNothing(pid, pm, visited) == visited

walk(pid, pm, visited) ==
    IF pid \in visited
    THEN visited
    ELSE IF pid < 0 \/ pid > PidMax
         THEN visited \cup {pid}
         ELSE walkChildren(Children(pm, pid), 1, pm, visited \cup {pid})

walkChildren(children, i, pm, visited) ==
    IF i > Len(children)
    THEN visited
    ELSE walkChildren(children, i + 1, pm,
             IF children[i] >= 0 /\ children[i] <= PidMax
             THEN walk(children[i], pm, visited)
             ELSE visited)

\* line 283: the size above which the cache is emptied
CacheLimit == 1000

\* Detector.buildPIDTree: the cached tree of the root when there is one, else
\* the walk, stored in the cache (emptied first when too large).
buildPIDTree(root, pm, cache) ==
    IF root \in DOMAIN cache
    THEN [tree |-> cache[root], cache |-> cache]
    ELSE LET tree == walk(root, pm, {})
             kept == IF Cardinality(DOMAIN cache) > CacheLimit
                     THEN EmptyMap
                     ELSE cache
         IN  [tree |-> tree,
              cache |-> [r \in (DOMAIN kept) \cup {root} |->
                            IF r = root THEN tree ELSE kept[r]]]

\* Detector.getContainerPIDTrees on the containers ListContainers returned,
\* in the order `order` in which the workers append their result.
RECURSIVE getContainerPIDTrees(_, _, _, _)
getContainerPIDTrees(order, pm, cache, result) ==
    IF order = << >>
    THEN [containers |-> result, cache |-> cache]
    ELSE LET c == Head(order)
             built == buildPIDTree(RootPid(c), pm, cache)
         IN  getContainerPIDTrees(Tail(order), pm, built.cache,
                 [d \in (DOMAIN result) \cup {c} |->
                     IF d = c
                     THEN [PID |-> RootPid(c), PIDSet |-> built.tree]
                     ELSE result[d]])

\* The orders in which the workers of one pass may finish.
Orders(listed) ==
    {order \in [1..Cardinality(listed) -> listed] :
        \A i, j \in 1..Cardinality(listed) : order[i] = order[j] => i = j}

\* lines 140-146: pid -> container; a pid in several PIDSets goes to the
\* container that comes last in `containers`.
pidToContainer(order, conts) ==
    [pid \in UNION {conts[c].PIDSet : c \in DOMAIN conts} |->
        order[Max({i \in 1..Len(order) : pid \in conts[order[i]].PIDSet})]]

\* The container of a zombie, by its ppid, else by its pid.
AttributeByPpidFirst(zpid, ppid, p2c) ==
    IF ppid \in DOMAIN p2c
    THEN p2c[ppid]
    ELSE IF zpid \in DOMAIN p2c THEN p2c[zpid] ELSE NoContainer

\* lines 177-184: the container of a zombie, by its pid, else by its ppid
Attribute(zpid, ppid, p2c) ==
    IF zpid \in DOMAIN p2c
    THEN p2c[zpid]
    ELSE IF ppid \in DOMAIN p2c THEN p2c[ppid] ELSE NoContainer

\* line 157: the second Stat of a zombie reads /proc again: the zombie is as
\* in the snapshot, or was reparented to init since, or is gone (skipped).
Restats == {"same", "reparented", "gone"}

RestatPPID(table, z, restat) ==
    IF restat = "reparented" THEN 1 ELSE table[z].PPID

cleanerFrame == << cleanerVars, walkVars, runtimeVars, auxVars >>

\* The entries one hour old or older go.
CleanupAtOneHour(ledger, t) ==
    [c \in {d \in DOMAIN ledger : ~(ledger[d] <= t - Hour)} |-> ledger[c]]

\* Detector.CleanupOldTimeouts (lines 305-316) at time t: an entry goes when
\* its time is before t - time.Hour.
CleanupOldTimeouts(ledger, t) ==
    [c \in {d \in DOMAIN ledger : ~(ledger[d] < t - Hour)} |-> ledger[c]]

\* A pass that finds no zombie returns before listing the containers
\* (lines 129-131).
DetectNoZombies ==
    /\ detPc = "idle"
    /\ CollectZombies(procs) = {}
    /\ timeoutContainers' = CleanupOldTimeouts(timeoutContainers, now)
    /\ lastCleanup' = now
    /\ detPc' = "returned"
    /\ parentMap' = BuildParentMap(procs)
    /\ containers' = EmptyMap
    /\ zombieInfos' = {}
    /\ detectErr' = FALSE
    /\ UNCHANGED << procs, pidTreeCache, cleanerFrame >>

\* A full pass (lines 81-200).
DetectZombies ==
    /\ detPc = "idle"
    /\ CollectZombies(procs) # {}
    /\ \E listed \in SUBSET Containers :
       \E order \in Orders(listed) :
       \E restat \in [CollectZombies(procs) -> Restats] :
          LET pm == BuildParentMap(procs)
              trees == getContainerPIDTrees(order, pm, pidTreeCache, EmptyMap)
              p2c == pidToContainer(order, trees.containers)
          IN  /\ parentMap' = pm
              /\ pidTreeCache' = trees.cache
              /\ containers' = trees.containers
              /\ zombieInfos' =
                    {[PID |-> z,
                      PPID |-> RestatPPID(procs, z, restat[z]),
                      Container |->
                          Attribute(z, RestatPPID(procs, z, restat[z]), p2c)] :
                        z \in {y \in CollectZombies(procs) : restat[y] # "gone"}}
    /\ timeoutContainers' = CleanupOldTimeouts(timeoutContainers, now)
    /\ lastCleanup' = now
    /\ detPc' = "returned"
    /\ detectErr' = FALSE
    /\ UNCHANGED << procs, cleanerFrame >>

\* A pass that returns an error: /proc cannot be read (lines 94-102),
\* ListContainers fails (line 135), or the context is cancelled (lines 110,
\* 152, 220), in getContainerPIDTrees with the workers already started
\* still filling the cache.
DetectZombiesError ==
    /\ detPc = "idle"
    /\ \E listed \in SUBSET Containers :
       \E order \in Orders(listed) :
          /\ listed # {} => CollectZombies(procs) # {}
          /\ pidTreeCache' =
                getContainerPIDTrees(order, BuildParentMap(procs),
                                     pidTreeCache, EmptyMap).cache
    /\ timeoutContainers' = CleanupOldTimeouts(timeoutContainers, now)
    /\ lastCleanup' = now
    /\ detPc' = "returned"
    /\ parentMap' = EmptyMap
    /\ containers' = EmptyMap
    /\ zombieInfos' = {}
    /\ detectErr' = TRUE
    /\ UNCHANGED << procs, cleanerFrame >>

\* Between passes the process table changes; the locals of the last pass
\* are gone.
ForgetPass ==
    /\ detPc' = "idle"
    /\ parentMap' = EmptyMap
    /\ containers' = EmptyMap
    /\ zombieInfos' = {}
    /\ detectErr' = FALSE

\* The caller is done with what the pass returned.
PassForgotten ==
    /\ detPc = "returned"
    /\ ForgetPass
    /\ UNCHANGED << procs, pidTreeCache, timeoutContainers, lastCleanup,
                    cleanerFrame >>

\* A process is created, changes state, or gets another parent.
ProcChanges ==
    /\ \E p \in 2..MaxPid :
       \E ppid \in (0..MaxPid) \ {p} :
       \E state \in {"Z", "S"} :
          /\ p \in DOMAIN procs => procs[p] # [PPID |-> ppid, State |-> state]
          /\ procs' = [q \in (DOMAIN procs) \cup {p} |->
                          IF q = p
                          THEN [PPID |-> ppid, State |-> state]
                          ELSE procs[q]]
    /\ ForgetPass
    /\ UNCHANGED << pidTreeCache, timeoutContainers, lastCleanup, cleanerFrame >>

\* A process is reaped and leaves the table.
ProcExits ==
    /\ \E p \in (DOMAIN procs) \ {1} :
          procs' = [q \in (DOMAIN procs) \ {p} |-> procs[q]]
    /\ ForgetPass
    /\ UNCHANGED << pidTreeCache, timeoutContainers, lastCleanup, cleanerFrame >>

NextDetect ==
    \/ DetectNoZombies
    \/ DetectZombies
    \/ DetectZombiesError
    \/ PassForgotten
    \/ ProcChanges
    \/ ProcExits

\* The controller plays no part here: one fixed configuration.
InitDetect ==
    /\ confirmCount = 1
    /\ dryRun = FALSE
    /\ whitelistRegexes = <<"^kube-system-.*">>
    /\ CleanerNew
    /\ DetectorNew
    /\ WalkNew
    /\ RuntimeNew
    /\ AuxNew

SpecDetect == InitDetect /\ [][NextDetect]_vars

(***************************************************************************)
(* The walk closure of buildPIDTree (lines 260-278), call by call, on an    *)
(* index built from arbitrary (ppid, pid) pairs.                            *)
(***************************************************************************)
\* The pids an index may hold: around both ends of the range of line 268.
WalkPids == {-1, 0, 1, PidMax, PidMax + 1}

\* parentMap[ppid] = append(parentMap[ppid], pid), pair after pair
\* (line 119)
IndexOf(edges) ==
    [ppid \in {edges[i][1] : i \in 1..Len(edges)} |->
        LET of == SelectSeq(edges, LAMBDA e : e[1] = ppid)
        IN  [i \in 1..Len(of) |-> of[i][2]]]

\* One more pair goes into the index.
AddEdge ==
    /\ wPc = "input"
    /\ Len(wEdges) < MaxEdges
    /\ \E ppid \in WalkPids \ {-1} :
       \E pid \in WalkPids :
          wEdges' = Append(wEdges, <<ppid, pid>>)
    /\ UNCHANGED << wRoot, wPc, wArg, wStack, wTree, wInserts, wSteps >>
    /\ UNCHANGED << cleanerVars, detectVars, runtimeVars, auxVars >>

\* line 278: walk(root), on fresh tree and visited maps (lines 257-258)
WalkBegin ==
    /\ wPc = "input"
    /\ \E root \in WalkPids :
          /\ wRoot' = root
          /\ wArg' = root
    /\ wPc' = "call"
    /\ UNCHANGED << wEdges, wStack, wTree, wInserts, wSteps >>
    /\ UNCHANGED << cleanerVars, detectVars, runtimeVars, auxVars >>

\* The walk never returns early on a visited pid.
NeverVisited(pid) == FALSE

\* line 262: visited[pid]
AlreadyVisited(pid) == pid \in wTree

\* Where a walk call returns to: its caller's loop, or the end of the walk.
ReturnPc(stack) == IF stack = << >> THEN "done" ELSE "loop"

\* lines 261-270: a call of walk, up to its loop over the children
WalkCall ==
    /\ wPc = "call"
    /\ IF AlreadyVisited(wArg)
       THEN /\ wPc' = ReturnPc(wStack)
            /\ UNCHANGED << wTree, wInserts, wStack >>
       ELSE /\ wTree' = wTree \cup {wArg}
            /\ wInserts' = [p \in (DOMAIN wInserts) \cup {wArg} |->
                               IF p = wArg
                               THEN (IF p \in DOMAIN wInserts
                                     THEN wInserts[p] ELSE 0) + 1
                               ELSE wInserts[p]]
            /\ IF wArg < 0 \/ wArg > PidMax
               THEN /\ wPc' = ReturnPc(wStack)
                    /\ UNCHANGED wStack
               ELSE /\ wStack' = Append(wStack, [pid |-> wArg, i |-> 1])
                    /\ wPc' = "loop"
    /\ wSteps' = wSteps + 1
    /\ UNCHANGED << wEdges, wRoot, wArg >>
    /\ UNCHANGED << cleanerVars, detectVars, runtimeVars, auxVars >>

\* lines 271-276: one turn of the loop over parentMap[pid] in the innermost
\* call, or its end and the return of that call
WalkLoop ==
    /\ wPc = "loop"
    /\ LET top == wStack[Len(wStack)]
           children == Children(IndexOf(wEdges), top.pid)
           rest == SubSeq(wStack, 1, Len(wStack) - 1)
       IN  IF top.i > Len(children)
           THEN /\ wStack' = rest
                /\ wPc' = ReturnPc(rest)
                /\ UNCHANGED wArg
           ELSE /\ wStack' = Append(rest, [top EXCEPT !.i = @ + 1])
                /\ IF children[top.i] >= 0 /\ children[top.i] <= PidMax
                   THEN /\ wArg' = children[top.i]
                        /\ wPc' = "call"
                   ELSE /\ wPc' = "loop"
                        /\ UNCHANGED wArg
    /\ wSteps' = wSteps + 1
    /\ UNCHANGED << wEdges, wRoot, wTree, wInserts >>
    /\ UNCHANGED << cleanerVars, detectVars, runtimeVars, auxVars >>

NextWalk ==
    \/ AddEdge
    \/ WalkBegin
    \/ WalkCall
    \/ WalkLoop

\* Controller and detector play no part here: one fixed configuration.
InitWalk ==
    /\ confirmCount = 1
    /\ dryRun = FALSE
    /\ whitelistRegexes = <<"^kube-system-.*">>
    /\ CleanerNew
    /\ DetectorNew
    /\ WalkNew
    /\ RuntimeNew
    /\ AuxNew

SpecWalk == InitWalk /\ [][NextWalk]_vars

(***************************************************************************)
(* The runtime adapters: RemoveContainer of DockerRuntime and of            *)
(* ContainerdRuntime, against a daemon whose containers come and go.        *)
(***************************************************************************)
\* config.RuntimeDocker, config.RuntimeContainerd
Runtimes == {"docker", "containerd"}

\* What a call of the daemon on an existing container may do: succeed, fail,
\* or run into the deadline of timeoutCtx.
DaemonOutcomes == {"ok", "fails", "deadline"}

\* The daemon without container id.
Without(daemon, id) == [c \in (DOMAIN daemon) \ {id} |-> daemon[c]]

\* DockerRuntime.RemoveContainer (docker.go:112-138): ContainerStop, whose
\* error is only logged, then ContainerRemove with Force, whose error is
\* returned; for a container the daemon does not have, ContainerRemove
\* answers "No such container".
DockerRemoveContainer(daemon, id, outcome) ==
    IF id \notin DOMAIN daemon
    THEN [err |-> "error", backend |-> daemon]
    ELSE IF outcome = "ok"
         THEN [err |-> "nil", backend |-> Without(daemon, id)]
         ELSE [err |-> IF outcome = "deadline" THEN "timeout" ELSE "error",
               backend |-> [daemon EXCEPT ![id] = "stopped"]]

\* ContainerdRuntime.RemoveContainer (containerd.go:124-162): LoadContainer,
\* whose error (not found, for a container the daemon does not have) is
\* returned at once; Task and task.Delete, whose errors are only logged;
\* container.Delete, whose error is returned.
ContainerdRemoveContainer(daemon, id, outcome) ==
    IF id \notin DOMAIN daemon
    THEN [err |-> "error", backend |-> daemon]
    ELSE IF outcome = "ok"
         THEN [err |-> "nil", backend |-> Without(daemon, id)]
         ELSE [err |-> IF outcome = "deadline" THEN "timeout" ELSE "error",
               backend |-> daemon]

\* ContainerRuntimeInterface.RemoveContainer of the configured adapter
RemoveContainer(daemon, id, outcome) ==
    IF containerRuntime = "docker"
    THEN DockerRemoveContainer(daemon, id, outcome)
    ELSE ContainerdRemoveContainer(daemon, id, outcome)

\* The kubelet starts a container.
BackendCreates ==
    /\ \E id \in Containers \ DOMAIN backend :
          backend' = [c \in (DOMAIN backend) \cup {id} |->
                         IF c = id THEN "running" ELSE backend[c]]
    /\ UNCHANGED << containerRuntime, removeResult, cleanerVars, detectVars,
                    walkVars, auxVars >>

\* A container leaves the daemon by other hands (kubelet, operator).
BackendRemoves ==
    /\ \E id \in DOMAIN backend : backend' = Without(backend, id)
    /\ UNCHANGED << containerRuntime, removeResult, cleanerVars, detectVars,
                    walkVars, auxVars >>

\* One call of RemoveContainer, as removeContainer makes it (cleaner.go:313).
RemoveContainerCall ==
    /\ \E id \in Containers :
       \E outcome \in DaemonOutcomes :
          LET r == RemoveContainer(backend, id, outcome)
          IN  /\ backend' = r.backend
              /\ removeResult' =
                    [removeResult EXCEPT
                        ![id] = [gone |-> id \notin DOMAIN backend,
                                 err |-> r.err]]
    /\ UNCHANGED << containerRuntime, cleanerVars, detectVars, walkVars,
                    auxVars >>

NextRemove ==
    \/ BackendCreates
    \/ BackendRemoves
    \/ RemoveContainerCall

\* Either adapter; controller and detector play no part.
InitRemove ==
    /\ confirmCount = 1
    /\ dryRun = FALSE
    /\ whitelistRegexes = <<"^kube-system-.*">>
    /\ CleanerNew
    /\ DetectorNew
    /\ WalkNew
    /\ containerRuntime \in Runtimes
    /\ backend = EmptyMap
    /\ removeResult = [c \in Containers |-> NoCall]
    /\ AuxNew

SpecRemove == InitRemove /\ [][NextRemove]_vars

(***************************************************************************)
(* The fan-out of getContainerPIDTrees (detector.go:202-245): one worker    *)
(* goroutine per listed container, started through the semaphore.           *)
(***************************************************************************)
\* Values of cleaner.max_concurrent_containers after Validate (config.go:
\* 103-105 turns anything below 1 into 10): below, at and above the size of
\* the semaphore.
ConcurrencyChoices == {1, 10, SemaphoreSize, SemaphoreSize + 5}

fanFrame == << cleanerVars, detectVars, walkVars, runtimeVars, lockVars >>

\* ListContainers returns (line 211): n containers, or an error (lines
\* 212-215).
FanListContainers ==
    /\ fanPc = "idle"
    /\ \E n \in 0..MaxListed :
          /\ fanContainers' = n
          /\ fanPc' = "loop"
    /\ UNCHANGED << maxConcurrentContainers, fanSpawned, semaphore, fanResult,
                    fanFrame >>

FanListFails ==
    /\ fanPc = "idle"
    /\ fanPc' = "returned"
    /\ UNCHANGED << maxConcurrentContainers, fanContainers, fanSpawned,
                    semaphore, fanResult, fanFrame >>

\* One iteration of the loop (lines 218-239): a slot of the semaphore is
\* taken (line 222, possible while it holds fewer than cap(semaphore)
\* tokens) and the worker is started.
FanSpawn ==
    /\ fanPc = "loop"
    /\ fanSpawned < fanContainers
    /\ semaphore < SemaphoreSize
    /\ semaphore' = semaphore + 1
    /\ fanSpawned' = fanSpawned + 1
    /\ UNCHANGED << maxConcurrentContainers, fanPc, fanContainers, fanResult,
                    fanFrame >>

\* The loop finds the context cancelled and returns (lines 220-221); the
\* workers already started run on.
FanCancelled ==
    /\ fanPc = "loop"
    /\ fanSpawned < fanContainers
    /\ fanPc' = "returned"
    /\ UNCHANGED << maxConcurrentContainers, fanContainers, fanSpawned,
                    semaphore, fanResult, fanFrame >>

\* The loop is over: wg.Wait() (line 241).
FanLoopEnds ==
    /\ fanPc = "loop"
    /\ fanSpawned = fanContainers
    /\ fanPc' = "wait"
    /\ UNCHANGED << maxConcurrentContainers, fanContainers, fanSpawned,
                    semaphore, fanResult, fanFrame >>

\* A worker ends (lines 225-238): buildPIDTree, the append to result, and
\* the deferred release of its slot.
FanWorkerDone ==
    /\ semaphore > 0
    /\ semaphore' = semaphore - 1
    /\ fanResult' = fanResult + 1
    /\ UNCHANGED << maxConcurrentContainers, fanPc, fanContainers, fanSpawned,
                    fanFrame >>

\* wg.Wait() returns once every worker has ended (lines 241-244).
FanReturn ==
    /\ fanPc = "wait"
    /\ semaphore = 0
    /\ fanPc' = "returned"
    /\ UNCHANGED << maxConcurrentContainers, fanContainers, fanSpawned,
                    semaphore, fanResult, fanFrame >>

NextFan ==
    \/ FanListContainers
    \/ FanListFails
    \/ FanSpawn
    \/ FanCancelled
    \/ FanLoopEnds
    \/ FanWorkerDone
    \/ FanReturn

InitFan ==
    /\ confirmCount = 1
    /\ dryRun = FALSE
    /\ whitelistRegexes = <<"^kube-system-.*">>
    /\ CleanerNew
    /\ DetectorNew
    /\ WalkNew
    /\ RuntimeNew
    /\ LockNew
    /\ maxConcurrentContainers \in ConcurrencyChoices
    /\ fanPc = "idle"
    /\ fanContainers = 0
    /\ fanSpawned = 0
    /\ semaphore = 0
    /\ fanResult = 0

SpecFan == InitFan /\ [][NextFan]_vars

(***************************************************************************)
(* The cache of buildPIDTree over many builds: one tree build after the     *)
(* other, for roots with and without an entry.                              *)
(***************************************************************************)
\* buildPIDTree is called for a root that has no entry: the next pid not
\* used as a root so far (the processes have no children here).
BuildFresh ==
    /\ \E root \in {Cardinality(DOMAIN pidTreeCache) + 1} \ DOMAIN pidTreeCache :
          LET built == buildPIDTree(root, EmptyMap, pidTreeCache)
          IN  /\ pidTreeCache' = built.cache
              /\ containers' = ("c1" :> [PID |-> root, PIDSet |-> built.tree])
    /\ UNCHANGED << procs, detPc, parentMap, zombieInfos, detectErr,
                    timeoutContainers, lastCleanup, cleanerFrame >>

\* buildPIDTree is called for a root that has an entry.
BuildCached ==
    /\ pidTreeCache # EmptyMap
    /\ LET root == CHOOSE r \in DOMAIN pidTreeCache : TRUE
           built == buildPIDTree(root, EmptyMap, pidTreeCache)
       IN  /\ pidTreeCache' = built.cache
           /\ containers' = ("c2" :> [PID |-> root, PIDSet |-> built.tree])
    /\ UNCHANGED << procs, detPc, parentMap, zombieInfos, detectErr,
                    timeoutContainers, lastCleanup, cleanerFrame >>

NextCache ==
    \/ BuildFresh
    \/ BuildCached

SpecCache == InitDetect /\ [][NextCache]_vars

(***************************************************************************)
(* The ledger of inspect timeouts (Detector.timeoutContainers) over the      *)
(* passes, with the clock running.                                           *)
(***************************************************************************)
ledgerFrame ==
    << procs, pidTreeCache, parentMap, containers, zombieInfos, detectErr,
       walkVars, runtimeVars, auxVars >>

\* DetectZombies begins (lines 81-91): CleanupOldTimeouts.
LedgerPassStarts ==
    /\ detPc = "idle"
    /\ detPc' = "started"
    /\ timeoutContainers' = CleanupOldTimeouts(timeoutContainers, now)
    /\ lastCleanup' = now
    /\ UNCHANGED << ledgerFrame, cleanerVars >>

\* Detector.RecordTimeoutContainer (lines 292-296), called by ListContainers
\* of the pass when the inspection of a container runs into its timeout
\* (docker.go:64, containerd.go:66).
RecordTimeoutContainer ==
    /\ detPc = "started"
    /\ \E containerID \in Containers :
          timeoutContainers' =
              [c \in (DOMAIN timeoutContainers) \cup {containerID} |->
                  IF c = containerID THEN now ELSE timeoutContainers[c]]
    /\ UNCHANGED << detPc, lastCleanup, ledgerFrame, cleanerVars >>

\* DetectZombies returns.
LedgerPassEnds ==
    /\ detPc = "started"
    /\ detPc' = "idle"
    /\ UNCHANGED << timeoutContainers, lastCleanup, ledgerFrame, cleanerVars >>

NextLedger ==
    \/ AdvanceClock
    \/ LedgerPassStarts
    \/ RecordTimeoutContainer
    \/ LedgerPassEnds

SpecLedger == InitDetect /\ [][NextLedger]_vars

(***************************************************************************)
(* Cleaner.stateMutex, lock by lock: the goroutine of Start, the            *)
(* cleanupContainer goroutines and the goroutine of Stop, each at the       *)
(* statement it has reached.                                                *)
(***************************************************************************)
lockFrame == << cleanerVars, detectVars, walkVars, runtimeVars, fanVars >>

\* stateMutex.Lock() returns to who: nobody holds the mutex.
CanLock == stateMutex = {}

\* stateMutex.RLock() returns: no writer holds the mutex.
CanRLock == stateMutex \subseteq {"stop"}

\* An unlock that does not release the mutex.
KeepsLocked(who) == stateMutex

\* stateMutex.Unlock() / RUnlock() by who
Unlock(who) == stateMutex \ {who}

\* Start: runCheck is called (lines 101, 111) and calls DetectZombies
\* (line 154), which lists the containers through the runtime adapter.
LkRunCheck ==
    /\ lkLoop = "select"
    /\ lkStop = "running"
    /\ lkLoop' = "detect"
    /\ UNCHANGED << stateMutex, lkTask, lkStop, lockFrame >>

\* DetectZombies returns: an error (line 158: runCheck returns), no zombie
\* (line 162: cleanupOldStates), or zombies (line 176:
\* processContainerZombies).
LkDetectReturns ==
    /\ lkLoop = "detect"
    /\ lkLoop' \in {"select", "reapLock", "processLock"}
    /\ UNCHANGED << stateMutex, lkTask, lkStop, lockFrame >>

\* processContainerZombies: line 181
LkProcessLock ==
    /\ lkLoop = "processLock"
    /\ CanLock
    /\ stateMutex' = {"loop"}
    /\ lkLoop' = "process"
    /\ UNCHANGED << lkTask, lkStop, lockFrame >>

\* processContainerZombies: go c.cleanupContainer (line 262), the mutex held
LkDispatch ==
    /\ lkLoop = "process"
    /\ \E t \in LockTasks :
          /\ lkTask[t] \in {"none", "done"}
          /\ lkTask' = [lkTask EXCEPT ![t] = "lock1"]
    /\ UNCHANGED << stateMutex, lkLoop, lkStop, lockFrame >>

\* processContainerZombies returns: the deferred Unlock of line 182;
\* runCheck goes on to cleanupOldStates (line 177).
LkProcessUnlock ==
    /\ lkLoop = "process"
    /\ stateMutex' = Unlock("loop")
    /\ lkLoop' = "reapLock"
    /\ UNCHANGED << lkTask, lkStop, lockFrame >>

\* cleanupOldStates: line 385
LkReapLock ==
    /\ lkLoop = "reapLock"
    /\ CanLock
    /\ stateMutex' = {"loop"}
    /\ lkLoop' = "reap"
    /\ UNCHANGED << lkTask, lkStop, lockFrame >>

\* cleanupOldStates returns: the deferred Unlock of line 386
LkReapUnlock ==
    /\ lkLoop = "reap"
    /\ stateMutex' = Unlock("loop")
    /\ lkLoop' = "select"
    /\ UNCHANGED << lkTask, lkStop, lockFrame >>

\* Start returns on stopChan (lines 108-110).
LkLoopReturns ==
    /\ lkLoop = "select"
    /\ lkStop # "running"
    /\ lkLoop' = "returned"
    /\ UNCHANGED << stateMutex, lkTask, lkStop, lockFrame >>

\* cleanupContainer: line 269
LkTaskLock(t) ==
    /\ lkTask[t] = "lock1"
    /\ CanLock
    /\ stateMutex' = {t}
    /\ lkTask' = [lkTask EXCEPT ![t] = "set"]
    /\ UNCHANGED << lkLoop, lkStop, lockFrame >>

\* cleanupContainer: state.InProgress = true and Unlock (lines 270-271);
\* then the dry-run return (lines 281-284) or the call of removeContainer
\* (line 289).
LkTaskUnlock(t) ==
    /\ lkTask[t] = "set"
    /\ stateMutex' = Unlock(t)
    /\ lkTask' = [lkTask EXCEPT ![t] = IF dryRun THEN "lock2" ELSE "remove"]
    /\ UNCHANGED << lkLoop, lkStop, lockFrame >>

\* removeContainer returns: nil (lines 300-301, then the deferred function)
\* or an error (line 293: killContainerShim).
LkRemoveReturns(t) ==
    /\ lkTask[t] = "remove"
    /\ \E next \in {"lock2", "shim"} : lkTask' = [lkTask EXCEPT ![t] = next]
    /\ UNCHANGED << stateMutex, lkLoop, lkStop, lockFrame >>

\* killContainerShim returns (lines 294-301), then the deferred function.
LkShimReturns(t) ==
    /\ lkTask[t] = "shim"
    /\ lkTask' = [lkTask EXCEPT ![t] = "lock2"]
    /\ UNCHANGED << stateMutex, lkLoop, lkStop, lockFrame >>

\* the deferred function of cleanupContainer: line 274
LkDeferLock(t) ==
    /\ lkTask[t] = "lock2"
    /\ CanLock
    /\ stateMutex' = {t}
    /\ lkTask' = [lkTask EXCEPT ![t] = "delete"]
    /\ UNCHANGED << lkLoop, lkStop, lockFrame >>

\* the deferred function: delete and Unlock (lines 275-276)
LkDeferUnlock(t) ==
    /\ lkTask[t] = "delete"
    /\ stateMutex' = Unlock(t)
    /\ lkTask' = [lkTask EXCEPT ![t] = "done"]
    /\ UNCHANGED << lkLoop, lkStop, lockFrame >>

\* Stop: stopChan is closed and the goroutine of lines 123-127 is started.
LkStop ==
    /\ lkStop = "running"
    /\ lkStop' = "rlock"
    /\ UNCHANGED << stateMutex, lkLoop, lkTask, lockFrame >>

\* the goroutine of Stop: line 124
LkStopRLock ==
    /\ lkStop = "rlock"
    /\ CanRLock
    /\ stateMutex' = stateMutex \cup {"stop"}
    /\ lkStop' = "rheld"
    /\ UNCHANGED << lkLoop, lkTask, lockFrame >>

\* the goroutine of Stop: close(done) and the deferred RUnlock (lines
\* 125-126); Stop then closes the runtime and the detector (lines 136-148).
LkStopRUnlock ==
    /\ lkStop = "rheld"
    /\ stateMutex' = Unlock("stop")
    /\ lkStop' = "closing"
    /\ UNCHANGED << lkLoop, lkTask, lockFrame >>

LkTask ==
    \E t \in LockTasks :
        \/ LkTaskLock(t)
        \/ LkTaskUnlock(t)
        \/ LkRemoveReturns(t)
        \/ LkShimReturns(t)
        \/ LkDeferLock(t)
        \/ LkDeferUnlock(t)

NextLock ==
    \/ LkRunCheck
    \/ LkDetectReturns
    \/ LkProcessLock
    \/ LkDispatch
    \/ LkProcessUnlock
    \/ LkReapLock
    \/ LkReapUnlock
    \/ LkLoopReturns
    \/ LkTask
    \/ LkStop
    \/ LkStopRLock
    \/ LkStopRUnlock

InitLock ==
    /\ confirmCount = 1
    /\ dryRun \in BOOLEAN
    /\ whitelistRegexes = <<"^kube-system-.*">>
    /\ CleanerNew
    /\ DetectorNew
    /\ WalkNew
    /\ RuntimeNew
    /\ AuxNew

SpecLock == InitLock /\ [][NextLock]_vars

(***************************************************************************)
(* Properties of the controller, checked under Spec.                        *)
(***************************************************************************)
\* The pod name of container c matches some compiled whitelist pattern.
MatchesWhitelist(c) ==
    \E i \in 1..Len(whitelistRegexes) : MatchString(whitelistRegexes[i], PodName(c))

\* Some zombie attributed to container c in this tick has PPID 1.
SightedOrphan(c) ==
    /\ c \in DOMAIN containerZombies
    /\ \E z \in containerZombies[c] : z.PPID = 1

\* The step of the control loop that runs processContainerZombies.
ProcessStep == loopPc = "process" /\ loopPc' = "reap"

\* confirm_count of container c before the tick (0 when it has no entry).
CountBefore(c) == IF Tracked(c) THEN containerStates[c].ZombieCount ELSE 0

\* C1: for every container id at most one cleanup task (dispatched and not
\* finished) exists at any time.
C1_NoDoubleCleanup == \A c \in Containers : TaskCount(c) <= 1

\* C2: from the dispatch of a cleanup task for a container until the entry
\* of that container is deleted, no step changes the entry's confirm_count
\* or last_seen.
C2_NoUpdateAfterDispatch ==
    [][\A c \in Containers :
          (/\ \E t \in TasksOf(c) : t.live
           /\ c \in DOMAIN containerStates
           /\ c \in DOMAIN containerStates')
          => /\ containerStates'[c].ZombieCount = containerStates[c].ZombieCount
             /\ containerStates'[c].LastDetected = containerStates[c].LastDetected
      ]_vars

\* C3: a cleanup task is dispatched for a container only by the state update
\* of a tick, and only when the container's confirm_count after that tick's
\* increment is at least the configured confirm_count.
C3_ThresholdGating ==
    [][\A c \in Containers :
          TaskCount(c)' > TaskCount(c)
          => /\ ProcessStep
             /\ c \in DOMAIN containerZombies
             /\ c \in DOMAIN containerStates'
             /\ containerStates'[c].ZombieCount = CountBefore(c) + 1
             /\ containerStates'[c].ZombieCount >= confirmCount
      ]_vars

\* C3 witness: with a threshold of 2 or more, a task was dispatched in this
\* tick for a container whose counter had reached the threshold.
C3_Witness ==
    /\ confirmCount >= 2
    /\ loopPc = "reap"
    /\ \E c \in DOMAIN containerZombies :
          /\ \E t \in TasksOf(c) : t.pc = "spawned" /\ t.live
          /\ Tracked(c)
          /\ containerStates[c].ZombieCount >= confirmCount

\* C4 as stated: in every tick in which a zombie attributed to C has ppid 1,
\* no cleanup task is dispatched for C and C's confirm_count is 0 after the
\* tick, whatever the counter was before.
C4_OrphanAlwaysResets ==
    [][ProcessStep =>
          \A c \in Containers :
              SightedOrphan(c)
              => /\ TaskCount(c)' = TaskCount(c)
                 /\ c \in DOMAIN containerStates'
                    => containerStates'[c].ZombieCount = 0
      ]_vars

\* C4 amended: in every tick in which a zombie attributed to C has ppid 1,
\* no cleanup task is dispatched for C; if C's entry is not in progress, its
\* confirm_count is 0 after the tick when the incremented counter reached
\* the threshold, and is the incremented counter when it did not; an entry
\* in progress keeps its counter.
C4_OrphanImmunity ==
    [][ProcessStep =>
          \A c \in Containers :
              SightedOrphan(c)
              => /\ TaskCount(c)' = TaskCount(c)
                 /\ c \in DOMAIN containerStates'
                    => containerStates'[c].ZombieCount =
                          IF containerStates'[c].InProgress
                          THEN CountBefore(c)
                          ELSE IF CountBefore(c) + 1 >= confirmCount
                               THEN 0
                               ELSE CountBefore(c) + 1
      ]_vars

\* C4 witness: a tick has just processed a sighting of c1 with an orphan
\* zombie beside an ordinary one, the counter was reset and no task exists.
C4_Witness ==
    /\ loopPc = "reap"
    /\ SightedOrphan("c1")
    /\ \E z \in containerZombies["c1"] : z.PPID # 1
    /\ Tracked("c1")
    /\ containerStates["c1"].ZombieCount = 0
    /\ TaskCount("c1") = 0
    /\ started = 0

\* C5: for a container whose pod name matches a whitelist pattern no cleanup
\* task exists, and RemoveContainer and killContainerShim were never called.
C5_WhitelistImmunity ==
    \A c \in Containers :
        MatchesWhitelist(c)
        => /\ TaskCount(c) = 0
           /\ removeCalls[c] = 0
           /\ shimKillCalls[c] = 0

\* C5 witness: with a threshold of 1 and the matching pattern second in the
\* list, a tick has just processed a sighting of the whitelisted container.
C5_Witness ==
    /\ confirmCount = 1
    /\ Len(whitelistRegexes) = 2
    /\ loopPc = "reap"
    /\ "c2" \in DOMAIN containerZombies
    /\ MatchesWhitelist("c2")
    /\ now >= 1

\* C6: in dry-run mode RemoveContainer and killContainerShim are never
\* called, containers_cleaned is never incremented, and a cleanup task is
\* only ever before its start or at its final delete.
C6_DryRunPurity ==
    dryRun
    => /\ \A c \in Containers :
             /\ removeCalls[c] = 0
             /\ shimKillCalls[c] = 0
             /\ containersCleaned[c] = 0
       /\ containerOperationTimeouts = 0
       /\ cleanupFailures["cleanup_failed"] = 0
       /\ \A t \in BagToSet(tasks) : t.pc \in {"spawned", "defer"}

\* C6 witness: in dry-run mode a cleanup task has passed the dry-run check
\* and is at its final delete.
C6_Witness ==
    /\ dryRun
    /\ \E t \in BagToSet(tasks) : t.pc = "defer" /\ t.live

\* A step that completes a tick of the control loop.
TickDone == loopPc # "select" /\ loopPc' = "select"

\* After the step no entry is both not in progress and last sighted more
\* than 3 x check_interval ago.
NoIdleEntryAfter ==
    \A c \in DOMAIN containerStates' :
        \/ containerStates'[c].InProgress
        \/ now' - containerStates'[c].LastDetected <= cleanupThreshold

\* C11 as stated: once a tick has completed, whatever its detection pass
\* returned (an error included), no entry is left that is not in progress
\* and was last sighted more than 3 x check_interval ago.
C11_IdleReapAnyTick == [][TickDone => NoIdleEntryAfter]_vars

\* C11 amended: once a tick whose detection pass returned no error has
\* completed, no entry is left that is not in progress and was last sighted
\* more than 3 x check_interval ago; a tick whose pass returned an error
\* leaves the map as it is.
C11_IdleReap ==
    [][TickDone =>
          IF loopPc = "detect"
          THEN containerStates' = containerStates
          ELSE NoIdleEntryAfter
      ]_vars

\* C11 witness: the only cleanup goroutine ever started has not begun, and
\* the reaper has deleted the idle entry it was started with.
C11_Witness ==
    /\ loopPc = "select"
    /\ started = 1
    /\ now > cleanupThreshold
    /\ ~Tracked("c1")
    /\ tasks = SetToBag({[containerID |-> "c1", live |-> FALSE, pc |-> "spawned"]})

\* How many cleanup goroutines of container c are at pc.
PcCount(c, pc) ==
    BagCardinality([t \in {u \in TasksOf(c) : u.pc = pc} |-> tasks[t]])

\* The cleanup goroutines of container c that returned from cleanupContainer
\* at line 296 and have their deferred function still to run.
FailedCount(c) == PcCount(c, "failed")

\* C12: when the only cleanup task of a container ends after its remove and
\* its shim-kill both failed, the container's entry is still in the map, with
\* its confirm_count, after the task has returned.
C12_FailedCleanupKeepsState ==
    [][\A c \in Containers :
          (/\ FailedCount(c)' < FailedCount(c)
           /\ TaskCount(c) = 1
           /\ \A t \in TasksOf(c) : t.live)
          => /\ c \in DOMAIN containerStates'
             /\ containerStates'[c].ZombieCount = containerStates[c].ZombieCount
      ]_vars

\* C13: RemoveContainer is called for a container only while no other
\* cleanup task of that container is past its own call of removeContainer,
\* one call at a time, and containers_cleaned goes up by one at a time.
C13_RemoveExactlyOnce ==
    [][\A c \in Containers :
          /\ removeCalls'[c] > removeCalls[c]
             => /\ removeCalls'[c] = removeCalls[c] + 1
                /\ \A t \in TasksOf(c) : t.pc = "spawned"
          /\ containersCleaned'[c] > containersCleaned[c]
             => containersCleaned'[c] = containersCleaned[c] + 1
      ]_vars

\* C14: a cleanup task is dispatched for a container only when zombies were
\* attributed to it in confirm_count successful passes in a row, this tick's
\* pass being the last of them.
C14_ConsecutiveConfirmation ==
    [][\A c \in Containers :
          TaskCount(c)' > TaskCount(c) => streak[c] + 1 >= confirmCount
      ]_vars

\* C15: when killContainerShim returns to a cleanup task whose remove has
\* failed, containers_cleaned is incremented exactly when kill -9 ended at
\* least one shim process, and cleanup_failed is incremented exactly when it
\* ended none.
C15_ShimKillMustKill ==
    [][\A c \in Containers :
          PcCount(c, "shim")' < PcCount(c, "shim")
          => /\ containersCleaned'[c] > containersCleaned[c]
                <=> shimsKilled'[c] > shimsKilled[c]
             /\ cleanupFailures'["cleanup_failed"] > cleanupFailures["cleanup_failed"]
                <=> shimsKilled'[c] = shimsKilled[c]
      ]_vars

\* C16 (under SpecStop): at the step in which Stop, its deadline not expired,
\* goes on to close the runtime and the detector, no entry is in progress
\* and no cleanup task is inside a runtime call or the shim-kill.
C16_CloseAfterCleanups ==
    [][(stopPc = "waiting" /\ stopPc' = "closed")
          => /\ \A c \in DOMAIN containerStates : ~containerStates[c].InProgress
             /\ \A t \in BagToSet(tasks) :
                    t.pc \notin {"removing", "cancelled", "shim"}
      ]_vars

\* The step of a tick whose detection pass returned an error.
ErrorTick == loopPc = "detect" /\ loopPc' = "select"

\* C17: a tick whose detection pass returns an error increments
\* detection_failed exactly once, changes neither the state map nor the
\* cleanup tasks, and leaves the control loop at its select, waiting for
\* the next tick; detection_failed is incremented by no other step.
C17_DetectionErrorTick ==
    [][/\ ErrorTick
          => /\ cleanupFailures' =
                   [cleanupFailures EXCEPT !["detection_failed"] = @ + 1]
             /\ containerStates' = containerStates
             /\ tasks' = tasks
             /\ started' = started
       /\ cleanupFailures'["detection_failed"] # cleanupFailures["detection_failed"]
          => ErrorTick
      ]_vars

\* C17 witness: the first tick, at time 0, created the entry of c1; a later
\* tick had a detection error and left the entry as it was; the tick after
\* that is under way.
C17_Witness ==
    /\ confirmCount = 2
    /\ cleanupFailures["detection_failed"] = 1
    /\ loopPc = "detect"
    /\ Tracked("c1")
    /\ containerStates["c1"] =
          [ZombieCount |-> 1, LastDetected |-> 0, InProgress |-> FALSE]

\* C18 (under SpecStop): a detection pass that ends with the root context
\* cancelled and returns no report is a clean exit of the tick:
\* detection_failed is not incremented and the state map is unchanged.
C18_CancelIsNoError ==
    [][(ctxDone /\ ErrorTick)
          => /\ cleanupFailures' = cleanupFailures
             /\ containerStates' = containerStates
      ]_vars

(***************************************************************************)
(* Properties of the detector, checked under SpecDetect.                    *)
(***************************************************************************)
\* The pids reachable from the pids of S through the index pm.
RECURSIVE ReachableFrom(_, _)
ReachableFrom(S, pm) ==
    LET next == S \cup UNION {{Children(pm, p)[i] : i \in 1..Len(Children(pm, p))} :
                                 p \in S}
    IN  IF next = S THEN S ELSE ReachableFrom(next, pm)

\* The descendant set of a root pid in the snapshot an index was built from.
Descendants(root, pm) == ReachableFrom({root}, pm)

\* C7: for every report with container C, the zombie's pid or its ppid is in
\* C's descendant set as computed from the snapshot of the same pass.
C7_AttributionSound ==
    detPc = "returned"
    => \A z \in zombieInfos :
          z.Container # NoContainer
          => \/ z.PID \in Descendants(RootPid(z.Container), parentMap)
             \/ z.PPID \in Descendants(RootPid(z.Container), parentMap)

\* C8: in every pass, the descendants set of each listed container is the
\* set of pids reachable from its root pid through the index of that pass.
C8_DescendantsOfThisPass ==
    detPc = "returned"
    => \A c \in DOMAIN containers :
          containers[c].PIDSet = Descendants(containers[c].PID, parentMap)

\* C19: a zombie whose pid and ppid are in the descendant set of no listed
\* container (every zombie, when no container is listed) is reported with
\* container none.
C19_HostZombiesUnattributed ==
    detPc = "returned"
    => \A z \in zombieInfos :
          (\A c \in DOMAIN containers :
              /\ z.PID \notin Descendants(containers[c].PID, parentMap)
              /\ z.PPID \notin Descendants(containers[c].PID, parentMap))
          => z.Container = NoContainer

\* C23: after a pass has filled the descendant sets, the root pid of every
\* container is a member of the container's own set.
C23_RootInDescendants ==
    \A c \in DOMAIN containers : containers[c].PID \in containers[c].PIDSet

\* C23 witness: a pass returned both containers, one of them with a
\* descendant besides its root.
C23_Witness ==
    /\ detPc = "returned"
    /\ DOMAIN containers = Containers
    /\ \E c \in Containers : containers[c].PIDSet \ {containers[c].PID} # {}

\* The containers of the pass whose set, as the pass filled it, holds pid.
HoldersOf(pid) == {c \in DOMAIN containers : pid \in containers[c].PIDSet}

\* C28: a zombie whose pid is in the set of some container is reported with
\* a container whose set holds that pid, whatever sets hold its ppid; the
\* ppid decides only when the pid is in no set (and when the ppid is in no
\* set either, the report names no container).
C28_AttributionOrder ==
    detPc = "returned"
    => \A z \in zombieInfos :
          IF HoldersOf(z.PID) # {}
          THEN z.Container \in HoldersOf(z.PID)
          ELSE IF HoldersOf(z.PPID) # {}
               THEN z.Container \in HoldersOf(z.PPID)
               ELSE z.Container = NoContainer

\* C28 witness: a pass reported a zombie with the container whose set holds
\* its pid, while its ppid is in the set of another container only.
C28_Witness ==
    /\ detPc = "returned"
    /\ \E z \in zombieInfos :
          /\ z.Container \in HoldersOf(z.PID)
          /\ HoldersOf(z.PPID) # {}
          /\ HoldersOf(z.PPID) \cap HoldersOf(z.PID) = {}

(***************************************************************************)
(* Properties of the runtime adapters, checked under SpecRemove.            *)
(***************************************************************************)
\* C20: with either adapter, RemoveContainer for a container that is already
\* gone from the runtime returns success.
C20_RemoveIdempotent ==
    \A c \in Containers :
        removeResult[c].gone => removeResult[c].err = "nil"

(***************************************************************************)
(* Properties of the tree walk, checked under SpecWalk.                     *)
(***************************************************************************)
\* C9: the set returned by the tree walk holds no pid outside [1, PidMax],
\* the root and a child pid of 0 included.
C9_PidBounds ==
    wPc = "done" => \A pid \in wTree : pid >= 1 /\ pid <= PidMax

\* C10: on every index, cycles and self-loops included, the walk from any
\* root terminates and inserts each pid at most once: no pid is inserted
\* twice, the calls in progress never outnumber the pairs of the index by
\* more than one, the walk takes at most three steps per pair and two more,
\* and until it is done it always has a next step.
C10_CycleSafety ==
    /\ \A pid \in DOMAIN wInserts : wInserts[pid] <= 1
    /\ Len(wStack) <= Len(wEdges) + 1
    /\ wSteps <= 3 * Len(wEdges) + 2
    /\ wPc \in {"call", "loop"} => ENABLED (WalkCall \/ WalkLoop)

\* C10 witness: the walk from 1 is done on an index with the cycle
\* 1 <-> PidMax, and holds both pids, each inserted once.
C10_Witness ==
    /\ wPc = "done"
    /\ wRoot = 1
    /\ \E i, j \in 1..Len(wEdges) :
          /\ wEdges[i] = <<1, PidMax>>
          /\ wEdges[j] = <<PidMax, 1>>
    /\ wTree = {1, PidMax}
    /\ wInserts = [pid \in {1, PidMax} |-> 1]

(***************************************************************************)
(* Properties of the fan-out of getContainerPIDTrees, checked under SpecFan.*)
(***************************************************************************)
\* C21: the descendant-set workers running at the same time are never more
\* than the smaller of max_concurrent_containers and 20.
C21_WorkersBounded ==
    semaphore <= Min({maxConcurrentContainers, SemaphoreSize})

(***************************************************************************)
(* Properties of the cache of buildPIDTree, checked under SpecCache.        *)
(***************************************************************************)
\* C22: whatever trees were built, the pid-tree cache never holds more than
\* 1000 entries.
C22_CacheHardCap == Cardinality(DOMAIN pidTreeCache) <= CacheLimit

(***************************************************************************)
(* Properties of the ledger of inspect timeouts, checked under SpecLedger.  *)
(***************************************************************************)
\* A pass starts in this step.
PassStarts == detPc = "idle" /\ detPc' = "started"

\* C24 as the spec states it: the start of a pass prunes the ledger, after
\* which it holds no entry one hour old or older, and every entry younger
\* than one hour is still there.
C24_PrunedAtOneHour ==
    [][PassStarts =>
          /\ \A c \in DOMAIN timeoutContainers' :
                now - timeoutContainers'[c] < Hour
          /\ \A c \in DOMAIN timeoutContainers :
                now - timeoutContainers[c] < Hour
                => /\ c \in DOMAIN timeoutContainers'
                   /\ timeoutContainers'[c] = timeoutContainers[c]]_vars

\* C24 amended: the start of a pass removes exactly the entries older than
\* one hour; an entry exactly one hour old stays, as every younger one.
C24_PrunedPastOneHour ==
    [][PassStarts =>
          /\ \A c \in DOMAIN timeoutContainers' :
                now - timeoutContainers'[c] <= Hour
          /\ \A c \in DOMAIN timeoutContainers :
                now - timeoutContainers[c] <= Hour
                => /\ c \in DOMAIN timeoutContainers'
                   /\ timeoutContainers'[c] = timeoutContainers[c]]_vars

\* C24 witness: a pass has started and pruned, and the ledger still holds an
\* entry that was exactly one hour old at that time, and no older one.
C24_Witness ==
    /\ detPc = "started"
    /\ \E c \in DOMAIN timeoutContainers :
          lastCleanup - timeoutContainers[c] = Hour
    /\ \A c \in DOMAIN timeoutContainers :
          lastCleanup - timeoutContainers[c] <= Hour

(***************************************************************************)
(* Properties of the confirmation counter and of the reaper, checked under  *)
(* Spec.                                                                    *)
(***************************************************************************)
\* Container c is sighted in this tick and is not whitelisted.
Sighted(c) == c \in DOMAIN containerZombies /\ ~MatchesWhitelist(c)

\* C25 as stated: the first tick that sights a non-whitelisted container
\* creates its entry with confirm_count 1 and last_seen now; every later
\* tick that sights it while it is not in progress adds exactly 1 to
\* confirm_count and sets last_seen to now, however many zombies it has.
C25_CountsEverySighting ==
    [][ProcessStep =>
          \A c \in Containers :
              Sighted(c) /\ (Tracked(c) => ~containerStates[c].InProgress)
              => /\ c \in DOMAIN containerStates'
                 /\ containerStates'[c] =
                       [ZombieCount |-> CountBefore(c) + 1,
                        LastDetected |-> now,
                        InProgress |-> FALSE]
      ]_vars

\* C25 amended: as stated, except that a tick whose incremented counter
\* reaches the configured confirm_count while a sighted zombie has ppid 1
\* leaves confirm_count at 0 (last_seen is now all the same).
C25_ConfirmationCounting ==
    [][ProcessStep =>
          \A c \in Containers :
              Sighted(c) /\ (Tracked(c) => ~containerStates[c].InProgress)
              => /\ c \in DOMAIN containerStates'
                 /\ containerStates'[c] =
                       [ZombieCount |->
                            IF /\ CountBefore(c) + 1 >= confirmCount
                               /\ SightedOrphan(c)
                            THEN 0
                            ELSE CountBefore(c) + 1,
                        LastDetected |-> now,
                        InProgress |-> FALSE]
      ]_vars

\* C25 witness: with threshold 2, a tick has just processed the first
\* sighting of c1, with two zombies: the entry counts 1.
C25_Witness ==
    /\ confirmCount = 2
    /\ loopPc = "reap"
    /\ "c1" \in DOMAIN containerZombies
    /\ Cardinality(containerZombies["c1"]) = 2
    /\ Tracked("c1")
    /\ containerStates["c1"] =
          [ZombieCount |-> 1, LastDetected |-> now, InProgress |-> FALSE]

\* C26: a tick that sights a container whose entry is in progress leaves
\* the entry as it is and starts no cleanup task for the container.
C26_InProgressIgnored ==
    [][ProcessStep =>
          \A c \in Containers :
              Sighted(c) /\ Tracked(c) /\ containerStates[c].InProgress
              => /\ c \in DOMAIN containerStates'
                 /\ containerStates'[c] = containerStates[c]
                 /\ TaskCount(c)' = TaskCount(c)
      ]_vars

\* C26 witness: with threshold 1, the entry created at time 0 by the first
\* tick is in progress; a later tick (one tick has ended with an error) has
\* just processed a sighting of c1 and the entry still counts 1, last seen
\* at 0.
C26_Witness ==
    /\ confirmCount = 1
    /\ loopPc = "reap"
    /\ "c1" \in DOMAIN containerZombies
    /\ now > 0
    /\ cleanupFailures["detection_failed"] = 1
    /\ Tracked("c1")
    /\ containerStates["c1"] =
          [ZombieCount |-> 1, LastDetected |-> 0, InProgress |-> TRUE]
    /\ started = 1

\* The step of the control loop that runs cleanupOldStates.
ReapStep == loopPc = "reap" /\ loopPc' = "select"

\* C27: the reaper removes exactly the entries that are not in progress and
\* were last seen more than 3 x check_interval ago; every other entry stays
\* in the map unchanged.
C27_ReapsExactlyIdle ==
    [][ReapStep =>
          containerStates' =
              [c \in {d \in DOMAIN containerStates :
                         \/ containerStates[d].InProgress
                         \/ now - containerStates[d].LastDetected
                               <= 3 * CheckInterval} |->
                  containerStates[c]]
      ]_vars

\* C27 witness: the tick of the latest ticker signal has run the reaper, and
\* the entry of c1, in progress and last seen longer ago than the threshold,
\* is still in the map.
C27_Witness ==
    /\ loopPc = "select"
    /\ ~tickerC
    /\ now = cleanupThreshold + 1
    /\ cleanupFailures["detection_failed"] = 0
    /\ Tracked("c1")
    /\ containerStates["c1"].InProgress
    /\ containerStates["c1"].LastDetected = 0

\* A call of removeContainer for container c returns in this step.
RemoveReturns(c) ==
    PcCount(c, "removing")' + PcCount(c, "cancelled")'
       < PcCount(c, "removing") + PcCount(c, "cancelled")

\* C29: killContainerShim is called exactly when removeContainer has
\* returned a failure, in the step in which it returned and never at
\* another time; the timeouts metric goes up by one exactly when the remove
\* failed on its deadline, and never otherwise.
C29_ShimKillAfterFailedRemove ==
    [][/\ \A c \in Containers :
             /\ RemoveReturns(c)
                => /\ removeErr'[c] \in {"nil", "timeout", "error"}
                   /\ shimKillCalls'[c] =
                         IF removeErr'[c] = "nil"
                         THEN shimKillCalls[c]
                         ELSE shimKillCalls[c] + 1
                   /\ PcCount(c, "shim")' =
                         IF removeErr'[c] = "nil"
                         THEN PcCount(c, "shim")
                         ELSE PcCount(c, "shim") + 1
                   /\ containerOperationTimeouts' =
                         IF removeErr'[c] = "timeout"
                         THEN containerOperationTimeouts + 1
                         ELSE containerOperationTimeouts
             /\ shimKillCalls'[c] # shimKillCalls[c] => RemoveReturns(c)
       /\ containerOperationTimeouts' # containerOperationTimeouts
          => \E c \in Containers : RemoveReturns(c)
       /\ dryRun => shimKillCalls' = shimKillCalls
      ]_vars

\* C29 witness: the one cleanup task started has had its remove fail on the
\* deadline: the metric counts 1 and the task is in killContainerShim.
C29_Witness ==
    /\ started = 1
    /\ removeErr["c1"] = "timeout"
    /\ containerOperationTimeouts = 1
    /\ shimKillCalls["c1"] = 1
    /\ PcCount("c1", "shim") = 1

(***************************************************************************)
(* Properties of the locking, checked under SpecLock.                       *)
(***************************************************************************)
\* C30: no goroutine holds stateMutex while it is in a call of the runtime
\* adapter (the listing of a detection pass, the remove), in a shim-kill or
\* in a detection pass; a cleanup task holds it only while it sets
\* InProgress and while it deletes the entry; and the mutex has one holder
\* at most.
C30_LockDiscipline ==
    /\ Cardinality(stateMutex) <= 1
    /\ "loop" \in stateMutex => lkLoop \in {"process", "reap"}
    /\ lkLoop = "detect" => "loop" \notin stateMutex
    /\ "stop" \in stateMutex => lkStop = "rheld"
    /\ \A t \in LockTasks :
          /\ t \in stateMutex => lkTask[t] \in {"set", "delete"}
          /\ lkTask[t] \in {"remove", "shim"} => t \notin stateMutex

\* C30 witness: one cleanup task is in killContainerShim, its InProgress
\* set and the mutex released, while the other holds the mutex to delete
\* its entry.
C30_Witness ==
    /\ lkTask["t1"] = "shim"
    /\ lkTask["t2"] = "delete"
    /\ stateMutex = {"t2"}

(***************************************************************************)
(* Properties of the cleanup goroutines over whole runs, checked under      *)
(* SpecFair.                                                                *)
(***************************************************************************)
\* The cleanupContainer goroutines that have ended.
Finished == started - BagCardinality(tasks)

\* A cleanupContainer goroutine of container c ends in this step.
TaskEnds(c) == TaskCount(c)' < TaskCount(c)

\* C31: every cleanup task that was dispatched finishes in the end; the
\* step in which it finishes, whatever its outcome, leaves no entry of its
\* container in the map; and an entry that is in progress always has a task
\* that set it and has not ended.
C31_TasksFinishAndDelete ==
    /\ \A n \in 1..MaxCleanups : (started >= n) ~> (Finished >= n)
    /\ [][\A c \in Containers : TaskEnds(c) => c \notin DOMAIN containerStates']_vars
    /\ [](\A c \in Containers :
             Tracked(c) /\ containerStates[c].InProgress
             => \E t \in TasksOf(c) : t.live /\ t.pc # "spawned")

\* C31 witness: the one task that was dispatched has ended after its remove
\* and its shim-kill both failed, and the map has no entry of its container.
C31_Witness ==
    /\ started = 1
    /\ tasks = EmptyBag
    /\ cleanupFailures["cleanup_failed"] = 1
    /\ shimKillCalls["c1"] = 1
    /\ ~Tracked("c1")

(***************************************************************************)
(* Further properties of the controller, checked under Spec.                *)
(***************************************************************************)
\* C32: a container whose pod name matches the whitelist never has an entry
\* in the map, and a tick that sights whitelisted containers only leaves the
\* map as it is.
C32_WhitelistedNeverTracked ==
    /\ [](\A c \in Containers : MatchesWhitelist(c) => ~Tracked(c))
    /\ [][ProcessStep /\ (\A c \in DOMAIN containerZombies : MatchesWhitelist(c))
          => containerStates' = containerStates]_vars

\* C32 witness: with a threshold of 1, a tick has just processed a sighting
\* of the whitelisted container alone, and the map is empty.
C32_Witness ==
    /\ confirmCount = 1
    /\ loopPc = "reap"
    /\ DOMAIN containerZombies = {"c2"}
    /\ MatchesWhitelist("c2")
    /\ containerStates = EmptyMap

\* C33: a tick that sights a non-whitelisted container for the
\* confirm_count-th time since its entry was created, no sighting of the
\* entry having shown a zombie with ppid 1, dispatches a cleanup task for it;
\* and as long as that entry stays in the map a task dispatched on it is
\* pending or running.
C33_BoundedResponse ==
    /\ [][ProcessStep =>
             \A c \in Containers :
                 sightings[c] < confirmCount /\ sightings'[c] = confirmCount
                 => TaskCount(c)' > TaskCount(c)]_vars
    /\ [](\A c \in Containers :
             sightings[c] = confirmCount
             => Tracked(c) /\ \E t \in TasksOf(c) : t.live)

\* C33 witness: the second sighting of c1 under confirm_count 2 has just
\* dispatched the first cleanup task.
C33_Witness ==
    /\ confirmCount = 2
    /\ loopPc = "reap"
    /\ sightings["c1"] = 2
    /\ started = 1
    /\ PcCount("c1", "spawned") = 1

\* C34: whenever a cleanup task of a container ends while the container has
\* an entry in the map, the ending task is one that holds that entry (the
\* entry it was dispatched with): no task deletes an entry created after its
\* dispatch.
C34_DeletesOwnEntry ==
    [][\A c \in Containers :
          TaskEnds(c) /\ Tracked(c)
          => \E t \in TasksOf(c) : t.pc \in {"defer", "failed"} /\ t.live]_vars

\* A cleanup goroutine of container c begins (lines 269-289) in this step.
TaskBegins(c) == PcCount(c, "spawned")' < PcCount(c, "spawned")

\* C35 as stated (under SpecStop): every remove call that returns after the
\* root context was cancelled, whether the task was pending or inside the
\* call at the cancellation, returns a failure and is followed by the
\* shim-kill.
C35_CancelledRemoveFails ==
    [][\A c \in Containers :
          ctxDone /\ RemoveReturns(c)
          => /\ removeErr'[c] # "nil"
             /\ shimKillCalls'[c] = shimKillCalls[c] + 1]_vars

\* C35 (under SpecStop): a task that begins after the root context was
\* cancelled still calls remove, that call fails with the cancellation and
\* counts no timeout; and every remove call that returns a failure after the
\* cancellation, begun before it or after it, is followed at once by the
\* shim-kill.
C35_CancelNeverSkipsShimKill ==
    [][\A c \in Containers :
          /\ ctxDone /\ TaskBegins(c)
             => /\ removeCalls'[c] = removeCalls[c] + 1
                /\ PcCount(c, "cancelled")' = PcCount(c, "cancelled") + 1
          /\ PcCount(c, "cancelled")' < PcCount(c, "cancelled")
             => removeErr'[c] = "canceled"
          /\ ctxDone /\ RemoveReturns(c) /\ removeErr'[c] # "nil"
             => /\ shimKillCalls'[c] = shimKillCalls[c] + 1
                /\ PcCount(c, "shim")' = PcCount(c, "shim") + 1
          /\ ctxDone /\ RemoveReturns(c) /\ removeErr'[c] = "canceled"
             => containerOperationTimeouts' = containerOperationTimeouts
      ]_vars

\* C35 witness: the only remove call for c1 has failed on the cancelled
\* context, and its task is in the shim-kill.
C35_Witness ==
    /\ ctxDone
    /\ started = 1
    /\ removeCalls["c1"] = 1
    /\ removeErr["c1"] = "canceled"
    /\ shimKillCalls["c1"] = 1
    /\ PcCount("c1", "shim") = 1

====
